---- MODULE Spec2Model ----
(***************************************************************************)
(* Fig-Reporting-App: the observation store (storageService.ts), its       *)
(* tabular import pipeline (parseDate, importFromCSV, fetchGoogleSheet)    *)
(* and the persisted localStorage slot they share.                         *)
(*                                                                         *)
(* Where a value is used several times it is bound once, as the variable   *)
(* of a one-element set (CHOOSE out \in {e(x) : x \in {v}} : TRUE is e(v)), *)
(* so that it is computed once.                                            *)
(*                                                                         *)
(* Text is modelled as a sequence of one-character strings, so that        *)
(* trimming, splitting, regular-expression matching and number parsing     *)
(* are computed character by character as the JavaScript does.  The Date   *)
(* constructor and Array.prototype.sort behave as V8 (Chrome, Node) runs   *)
(* them.                                                                   *)
(***************************************************************************)
EXTENDS Integers, Sequences, FiniteSets, TLC

VARIABLES
    slot,        \* localStorage[STORAGE_KEY]: Missing, or the stored text
    nextToken,   \* how many id tokens Math.random has given out, plus one
    last,        \* the last storage operation: its name, its argument and
                 \* what it returned or threw
    csvInput,    \* the text a direct call of importFromCSV is given: its
                 \* rows, the line ending that joins them, and the text
    dateInput,   \* the text a call of parseDate is given
    dateOutput,  \* what that call returned
    wxCall,      \* a call of fetchWeatherHistory: its arguments and the clock
    wxLegs,      \* the archive and forecast queries of that call: what each
                 \* asks for, whether it has settled, and the answer
    wxDone,      \* whether the call has completed, and with what
    data,        \* the App's state data: the observations in memory
    clipboard,   \* the text handleCopy wrote to the clipboard
    weatherHistory, \* the App's state weatherHistory: whether it was set,
                 \* and the span the weather was fetched for
    sheetCalls,  \* the calls of fetchGoogleSheet in flight: the one of
                 \* initData, and how many of handleUrlImport
    importStatus, \* DataSync's state importStatus
    resetTimers, \* how many setTimeout(() => setImportStatus('idle'), 3000)
                 \* are pending
    aiCall       \* a call of analyzeData or askSpecificQuestion in flight,
                 \* and whether data was replaced since it was made

vars == <<slot, nextToken, last, csvInput, dateInput, dateOutput, wxCall, wxLegs, wxDone,
          data, clipboard, weatherHistory, sheetCalls, importStatus, resetTimers, aiCall>>

\* the variables of the date and weather runs, which the store leaves alone
dateVars == <<dateInput, dateOutput>>
weatherVars == <<wxCall, wxLegs, wxDone>>
storeVars == <<slot, nextToken, last, csvInput>>
\* the variables of the App and of DataSync
appVars == <<data, clipboard, weatherHistory, sheetCalls, importStatus, resetTimers, aiCall>>

----------------------------------------------------------------------------
(* Bounds of the model *)

\* rows per imported text in the store specification
MaxRows == 2
\* id tokens a run of the store specification may draw
MaxTokens == 3
\* lines per text in the parser specification
MaxLines == 2
\* calls of handleUrlImport in flight at a time
MaxCalls == 1
\* days before and after the cutoff day a weather range may reach
MaxSpan == 2

----------------------------------------------------------------------------
(* Characters and strings *)

Digits == {"0", "1", "2", "3", "4", "5", "6", "7", "8", "9"}

\* String.prototype.trim strips WhiteSpace and LineTerminator characters
WhiteSpace == {" ", "\t", "\n", "\r"}

\* null, as a value no text equals (a text is a sequence of characters)
Null == <<"null">>

DigitVal(c) ==
    CASE c = "0" -> 0 [] c = "1" -> 1 [] c = "2" -> 2 [] c = "3" -> 3
      [] c = "4" -> 4 [] c = "5" -> 5 [] c = "6" -> 6 [] c = "7" -> 7
      [] c = "8" -> 8 [] c = "9" -> 9

AllDigits(s) == \A i \in 1..Len(s) : s[i] \in Digits

RECURSIVE DecVal(_)
DecVal(s) ==
    IF s = <<>> THEN 0
    ELSE 10 * DecVal(SubSeq(s, 1, Len(s) - 1)) + DigitVal(s[Len(s)])

\* String.prototype.trim
trim(s) ==
    LET keep == {i \in 1..Len(s) : s[i] \notin WhiteSpace}
    IN  IF keep = {} THEN <<>>
        ELSE LET lo == CHOOSE i \in keep : \A j \in keep : i <= j
                 hi == CHOOSE i \in keep : \A j \in keep : j <= i
             IN  SubSeq(s, lo, hi)

\* String.prototype.includes for a one-character needle
includes(s, c) == \E i \in 1..Len(s) : s[i] = c

\* the first position of c in s, 0 when there is none
indexOf(s, c) ==
    LET at == {i \in 1..Len(s) : s[i] = c}
    IN  IF at = {} THEN 0 ELSE CHOOSE i \in at : \A j \in at : i <= j

\* String.prototype.split for a one-character separator: "a,,b" gives
\* <<"a", "", "b">> and "" gives <<"">>
RECURSIVE split(_, _)
split(s, sep) ==
    CHOOSE out \in
        {IF i = 0 THEN <<s>>
         ELSE CHOOSE parts \in {<<SubSeq(s, 1, i - 1)>> \o split(rest, sep) :
                                    rest \in {SubSeq(s, i + 1, Len(s))}} : TRUE :
             i \in {indexOf(s, sep)}} : TRUE

\* String.prototype.padStart(2, '0')
padStart2(s) == IF Len(s) >= 2 THEN s ELSE IF Len(s) = 1 THEN <<"0">> \o s ELSE <<"0", "0">>

\* input.split(/\r\n|\n/): "\r\n" is one separator, a lone "\r" is none
splitLines(s) ==
    LET pieces == split(s, "\n")
        chop(p) == IF Len(p) > 0 /\ p[Len(p)] = "\r" THEN SubSeq(p, 1, Len(p) - 1) ELSE p
    IN  [i \in 1..Len(pieces) |-> IF i < Len(pieces) THEN chop(pieces[i]) ELSE pieces[i]]

\* Array.prototype.join for strings
RECURSIVE join(_, _)
join(parts, sep) ==
    IF parts = <<>> THEN <<>>
    ELSE IF Len(parts) = 1 THEN parts[1]
    ELSE parts[1] \o sep \o join(Tail(parts), sep)

----------------------------------------------------------------------------
(* Dates *)

IsLeap(y) == (y % 4 = 0 /\ y % 100 # 0) \/ y % 400 = 0

DaysInMonth(y, m) ==
    CASE m \in {1, 3, 5, 7, 8, 10, 12} -> 31
      [] m \in {4, 6, 9, 11} -> 30
      [] m = 2 -> IF IsLeap(y) THEN 29 ELSE 28

RECURSIVE DaysBeforeMonth(_, _)
DaysBeforeMonth(y, m) ==
    IF m <= 1 THEN 0 ELSE DaysBeforeMonth(y, m - 1) + DaysInMonth(y, m - 1)

\* days from 0000-01-01 to the first day of year y (proleptic Gregorian)
DaysBeforeYear(y) ==
    IF y = 0 THEN 0
    ELSE 365 * y + ((y - 1) \div 4) - ((y - 1) \div 100) + ((y - 1) \div 400) + 1

\* the shape NNNN-NN-NN of a date-only ISO string
IsIsoShape(s) ==
    /\ Len(s) = 10
    /\ s[5] = "-" /\ s[8] = "-"
    /\ \A i \in {1, 2, 3, 4, 6, 7, 9, 10} : s[i] \in Digits

\* new Date(s).getTime() for a date string, in days (the comparators only
\* use differences and NaN-ness).  A string of the date-only ISO shape is
\* Invalid Date when its month is not 1..12 or its day not 1..31; a day
\* 29..31 beyond the month's length rolls over into the next month.  Any
\* other text the model's store can hold is Invalid Date.
getTime(s) ==
    IF ~IsIsoShape(s) THEN [nan |-> TRUE, t |-> 0]
    ELSE LET y == DecVal(SubSeq(s, 1, 4))
             m == DecVal(SubSeq(s, 6, 7))
             d == DecVal(SubSeq(s, 9, 10))
         IN  IF m \notin 1..12 \/ d \notin 1..31 THEN [nan |-> TRUE, t |-> 0]
             ELSE [nan |-> FALSE,
                   t   |-> DaysBeforeYear(y) + DaysBeforeMonth(y, m) + d - 1]

----------------------------------------------------------------------------
(* parseDate: the Date Normalizer *)

DateSeps == {"-", "/"}

\* ^(\d{a})[-\/](\d{b})[-\/](\d{c})$ with a \in L1, b \in L2, c \in L3:
\* the three captured groups, or <<>> when the text does not match
matchThree(s, L1, L2, L3) ==
    LET P == {i \in 1..Len(s) : s[i] \in DateSeps}
    IN  IF Cardinality(P) # 2 THEN <<>>
        ELSE LET i  == CHOOSE k \in P : \A j \in P : k <= j
                 j  == CHOOSE k \in P : \A l \in P : l <= k
                 g1 == SubSeq(s, 1, i - 1)
                 g2 == SubSeq(s, i + 1, j - 1)
                 g3 == SubSeq(s, j + 1, Len(s))
             IN  IF /\ AllDigits(g1) /\ AllDigits(g2) /\ AllDigits(g3)
                    /\ Len(g1) \in L1 /\ Len(g2) \in L2 /\ Len(g3) \in L3
                 THEN <<g1, g2, g3>>
                 ELSE <<>>

parseDate(rawDate) ==
    IF rawDate = <<>> THEN Null
    ELSE LET datePart     == split(trim(rawDate), " ")[1]
             isoMatch     == matchThree(datePart, {4}, {1, 2}, {1, 2})
             slashMatch   == matchThree(datePart, {1, 2}, {1, 2}, {2, 3, 4})
             compactMatch == Len(datePart) = 8 /\ AllDigits(datePart)
         IN  IF isoMatch # <<>> THEN
                 LET isoString == isoMatch[1] \o <<"-">> \o padStart2(isoMatch[2])
                                      \o <<"-">> \o padStart2(isoMatch[3])
                 IN  IF ~getTime(isoString).nan THEN isoString ELSE Null
             ELSE IF slashMatch # <<>> THEN
                 LET day   == padStart2(slashMatch[1])
                     month == padStart2(slashMatch[2])
                     year  == IF Len(slashMatch[3]) = 2
                              THEN <<"2", "0">> \o slashMatch[3]
                              ELSE slashMatch[3]
                 IN  year \o <<"-">> \o month \o <<"-">> \o day
             ELSE IF compactMatch THEN
                 SubSeq(datePart, 5, 8) \o <<"-">> \o SubSeq(datePart, 3, 4)
                     \o <<"-">> \o SubSeq(datePart, 1, 2)
             ELSE Null

----------------------------------------------------------------------------
(* Numbers of a row *)

\* length of the longest prefix of s made of digits
RECURSIVE digitRun(_)
digitRun(s) ==
    IF s = <<>> \/ s[1] \notin Digits THEN 0 ELSE 1 + digitRun(Tail(s))

\* parseFloat on text without leading white space: the longest prefix that
\* is [+-]digits[.digits] or [+-].digits; NaN when there is none.  The
\* value is kept exactly as sign, integer part and fraction digits.  The
\* model's texts hold no exponent and no "Infinity".
NaN == [nan |-> TRUE, neg |-> FALSE, int |-> 0, frac |-> <<>>]

isNaN(v) == v.nan

parseFloat(val) ==
    LET signed == val # <<>> /\ val[1] \in {"+", "-"}
        body   == IF signed THEN Tail(val) ELSE val
        n      == digitRun(body)
        rest   == SubSeq(body, n + 1, Len(body))
        f      == IF rest # <<>> /\ rest[1] = "." THEN digitRun(Tail(rest)) ELSE 0
    IN  IF n = 0 /\ f = 0 THEN NaN
        ELSE [nan  |-> FALSE,
              neg  |-> signed /\ val[1] = "-",
              int  |-> DecVal(SubSeq(body, 1, n)),
              frac |-> IF f = 0 THEN <<>> ELSE SubSeq(rest, 2, f + 1)]

\* the closure parseValue of importFromCSV
parseValue(val) ==
    IF val = <<>> THEN [nan |-> FALSE, neg |-> FALSE, int |-> 0, frac |-> <<>>]
    ELSE parseFloat(val)

\* Math.round: the nearest integer, a tie going towards +Infinity
MathRound(v) ==
    LET half  == v.frac # <<>> /\ DigitVal(v.frac[1]) >= 5
        above == v.frac # <<>> /\
                 (\/ DigitVal(v.frac[1]) > 5
                  \/ /\ DigitVal(v.frac[1]) = 5
                     /\ \E i \in 2..Len(v.frac) : v.frac[i] # "0")
    IN  IF ~v.neg THEN v.int + (IF half THEN 1 ELSE 0)
        ELSE 0 - v.int - (IF above THEN 1 ELSE 0)

----------------------------------------------------------------------------
(* Array.prototype.sort with the comparator of storageService.ts *)

\* (a, b) => new Date(b.date).getTime() - new Date(a.date).getTime(), as the
\* sort sees it: a NaN result counts as +0 (ECMA-262 CompareArrayElements)
compareNewestFirst(a, b) ==
    LET ta == getTime(a.date)
        tb == getTime(b.date)
    IN  IF ta.nan \/ tb.nan THEN 0 ELSE tb.t - ta.t

reverse(s) == [i \in 1..Len(s) |-> s[Len(s) + 1 - i]]

\* the length of the run the array starts with, strictly descending (by the
\* comparator) or not: V8's CountAndMakeRun
runLength(arr) ==
    LET isDescending == compareNewestFirst(arr[2], arr[1]) < 0
        goes(idx) == IF isDescending
                     THEN compareNewestFirst(arr[idx], arr[idx - 1]) < 0
                     ELSE compareNewestFirst(arr[idx], arr[idx - 1]) >= 0
    IN  CHOOSE r \in 2..Len(arr) :
            /\ \A idx \in 3..r : goes(idx)
            /\ r < Len(arr) => ~goes(r + 1)

\* where the pivot goes in the sorted prefix work[left..right-1] (1-based):
\* the binary search of V8's BinaryInsertionSort
RECURSIVE insertionPoint(_, _, _, _)
insertionPoint(work, pivot, left, right) ==
    IF left >= right THEN left
    ELSE LET mid == left + ((right - left) \div 2)
         IN  IF compareNewestFirst(pivot, work[mid]) < 0
             THEN insertionPoint(work, pivot, left, mid)
             ELSE insertionPoint(work, pivot, mid + 1, right)

\* work with work[start] moved to the place the binary search gives it
insertOne(work, start) ==
    CHOOSE moved \in
        {SubSeq(work, 1, at - 1) \o <<work[start]>> \o SubSeq(work, at, start - 1)
             \o SubSeq(work, start + 1, Len(work)) :
             at \in {insertionPoint(work, work[start], 1, start)}} : TRUE

RECURSIVE binaryInsertionSort(_, _)
binaryInsertionSort(work, start) ==
    IF start > Len(work) THEN work
    ELSE CHOOSE out \in {binaryInsertionSort(moved, start + 1) :
                             moved \in {insertOne(work, start)}} : TRUE

\* arr.sort(comparator) as V8 runs it on an array shorter than 64 elements:
\* one run is counted (and reversed when descending), the rest is inserted
\* by binary search.  With a consistent comparator this is the stable sort
\* every engine gives.
sortFrom(arr, r) ==
    CHOOSE out \in
        {binaryInsertionSort(work, r + 1) :
             work \in {IF compareNewestFirst(arr[2], arr[1]) < 0
                       THEN reverse(SubSeq(arr, 1, r)) \o SubSeq(arr, r + 1, Len(arr))
                       ELSE arr}} : TRUE

sortNewestFirst(arr) ==
    IF Len(arr) < 2 THEN arr
    ELSE CHOOSE out \in {sortFrom(arr, r) : r \in {runLength(arr)}} : TRUE

----------------------------------------------------------------------------
(* Array.prototype.sort with the comparator of geminiService.ts *)

\* (a, b) => new Date(a.date).getTime() - new Date(b.date).getTime()
compareOldestFirst(a, b) ==
    LET ta == getTime(a.date)
        tb == getTime(b.date)
    IN  IF ta.nan \/ tb.nan THEN 0 ELSE ta.t - tb.t

runLengthOldest(arr) ==
    LET isDescending == compareOldestFirst(arr[2], arr[1]) < 0
        goes(idx) == IF isDescending
                     THEN compareOldestFirst(arr[idx], arr[idx - 1]) < 0
                     ELSE compareOldestFirst(arr[idx], arr[idx - 1]) >= 0
    IN  CHOOSE r \in 2..Len(arr) :
            /\ \A idx \in 3..r : goes(idx)
            /\ r < Len(arr) => ~goes(r + 1)

RECURSIVE insertionPointOldest(_, _, _, _)
insertionPointOldest(work, pivot, left, right) ==
    IF left >= right THEN left
    ELSE LET mid == left + ((right - left) \div 2)
         IN  IF compareOldestFirst(pivot, work[mid]) < 0
             THEN insertionPointOldest(work, pivot, left, mid)
             ELSE insertionPointOldest(work, pivot, mid + 1, right)

insertOneOldest(work, start) ==
    CHOOSE moved \in
        {SubSeq(work, 1, at - 1) \o <<work[start]>> \o SubSeq(work, at, start - 1)
             \o SubSeq(work, start + 1, Len(work)) :
             at \in {insertionPointOldest(work, work[start], 1, start)}} : TRUE

RECURSIVE binaryInsertionSortOldest(_, _)
binaryInsertionSortOldest(work, start) ==
    IF start > Len(work) THEN work
    ELSE CHOOSE out \in {binaryInsertionSortOldest(moved, start + 1) :
                             moved \in {insertOneOldest(work, start)}} : TRUE

sortFromOldest(arr, r) ==
    CHOOSE out \in
        {binaryInsertionSortOldest(work, r + 1) :
             work \in {IF compareOldestFirst(arr[2], arr[1]) < 0
                       THEN reverse(SubSeq(arr, 1, r)) \o SubSeq(arr, r + 1, Len(arr))
                       ELSE arr}} : TRUE

\* data.sort(comparator) of getContextString, which sorts its argument in
\* place
sortOldestFirst(arr) ==
    IF Len(arr) < 2 THEN arr
    ELSE CHOOSE out \in {sortFromOldest(arr, r) : r \in {runLengthOldest(arr)}} : TRUE

----------------------------------------------------------------------------
(* The persisted slot *)

\* localStorage.getItem(STORAGE_KEY) is null
Missing == [kind |-> "missing", items |-> <<>>]

\* JSON.stringify of an Observation[]: the text of an array of records
JSONstringify(arr) == [kind |-> "array", items |-> arr]

\* an array element that is no record: the JSON value null
JsonNull == [isNull |-> TRUE]

isRecord(x) == "date" \in DOMAIN x

ids(arr) == {arr[i].id : i \in {j \in 1..Len(arr) : isRecord(arr[j])}}

\* n id tokens from the one numbered first: Math.random().toString(36)
\* gives tokens that differ from every token given before
tokens(first, n) == [i \in 1..n |-> first + i - 1]

----------------------------------------------------------------------------
(* Inputs of the store specification *)

\* the entry form: <input type="date"> gives a valid YYYY-MM-DD
EntryDates == {
    <<"2", "0", "2", "3", "-", "1", "0", "-", "0", "1">>,
    <<"2", "0", "2", "3", "-", "1", "0", "-", "0", "2">> }

\* the sliders of the entry form give integers in 0..100: two settings of
\* the bats and figs sliders
EntryValues == {[bats |-> 0, figs |-> 0], [bats |-> 100, figs |-> 30]}

\* entryLeaves as the form starts with
DefaultLeaves == 50

\* rows a pasted or fetched text is made of: two day-first dates, a
\* month-first date (which the day-first form turns into month 13) and a
\* header row
RowOct1   == <<"0", "1", "/", "1", "0", "/", "2", "0", "2", "3", ",", "2", "0", ",", "1", "0">>
RowOct3   == <<"0", "3", "/", "1", "0", "/", "2", "0", "2", "3", ",", "5", ",", "5", ",", "7">>
RowMonth13 == <<"0", "1", "/", "1", "3", "/", "2", "0", "2", "3", ",", "1", ",", "1">>
RowHeader == <<"D", "a", "t", "e", ",", "F", "i", "g", "s", ",", "B", "a", "t", "s">>

StoreRows == {RowOct1, RowMonth13, RowHeader}

\* rows of the sheet the network serves
SheetRows == {RowOct3, RowHeader}

\* the sequences of 1..n elements of S
RECURSIVE SeqsUpTo(_, _)
SeqsUpTo(S, n) ==
    IF n = 0 THEN {}
    ELSE LET shorter == SeqsUpTo(S, n - 1)
         IN  {<<x>> : x \in S} \cup shorter \cup
             {q \o <<x>> : q \in shorter, x \in S}

StoreTexts == {join(rows, <<"\n">>) : rows \in SeqsUpTo(StoreRows, MaxRows)}

SheetTexts == {join(rows, <<"\n">>) : rows \in SeqsUpTo(SheetRows, MaxRows)}

Urls == [outputCsv : BOOLEAN, hasId : BOOLEAN]

Responses ==
    {[kind |-> "rejected", html |-> FALSE, ok |-> FALSE, text |-> RowOct3]}
    \cup {[kind |-> "response", html |-> h, ok |-> k, text |-> RowOct3] :
              h \in BOOLEAN, k \in BOOLEAN}
    \cup {[kind |-> "response", html |-> FALSE, ok |-> TRUE, text |-> x] : x \in SheetTexts}


----------------------------------------------------------------------------
(* storageService.ts *)

\* getObservations never throws: a missing or empty slot, text JSON.parse
\* rejects, a parsed value without a sort method and a comparator that
\* throws (it reads .date of null) all end in [].  An array of fewer than
\* two elements is returned without the comparator being called.
getObservations(stored) ==
    IF stored.kind \in {"missing", "empty"} THEN <<>>
    ELSE IF stored.kind # "array" THEN <<>>
    ELSE IF Len(stored.items) >= 2 /\ \E i \in 1..Len(stored.items) : ~isRecord(stored.items[i])
         THEN <<>>
    ELSE sortNewestFirst(stored.items)

\* current.findIndex(o => o.date === obs.date): 0 when there is none (the
\* code's -1); the callback throws on an element that is null
findIndexThrows(current, date) ==
    \E i \in 1..Len(current) :
        /\ ~isRecord(current[i])
        /\ \A j \in 1..(i - 1) : isRecord(current[j]) /\ current[j].date # date

findIndex(current, date) ==
    LET hits == {i \in 1..Len(current) : isRecord(current[i]) /\ current[i].date = date}
    IN  IF hits # {} THEN CHOOSE i \in hits : \A j \in hits : i <= j ELSE 0

\* what an operation of the service did: whether it threw, what it
\* returned, and the slot it left (and, for fetchGoogleSheet, the reason of
\* the Error and whether fetch was called)
Outcome(threw, ret, stored) ==
    [threw |-> threw, ret |-> ret, slot |-> stored, reason |-> "none", fetched |-> FALSE]

\* the array saveObservation would sort were it to put obs first whether or
\* not its date is stored
withObservationPrepended(current, existingIndex, obs) ==
    <<obs>> \o current

\* the array saveObservation sorts: obs with the id of the record at
\* existingIndex in its place, or obs put first when existingIndex is 0
withObservation(current, existingIndex, obs) ==
    IF existingIndex >= 1
    THEN [i \in 1..Len(current) |->
              IF i = existingIndex
              THEN [id |-> current[i].id, date |-> obs.date, bats |-> obs.bats,
                    figs |-> obs.figs, leaves |-> obs.leaves]
              ELSE current[i]]
    ELSE <<obs>> \o current

\* the sorted array, returned and persisted
sortAndPersist(updated) ==
    CHOOSE out \in {Outcome(FALSE, sorted, JSONstringify(sorted)) :
                        sorted \in {sortNewestFirst(updated)}} : TRUE

\* saveObservation were it to persist the new record alone
saveObservationAlone(stored, obs) ==
    Outcome(FALSE, <<obs>>, JSONstringify(<<obs>>))

saveObservation(stored, obs) ==
    CHOOSE out \in
        {IF findIndexThrows(current, obs.date) THEN Outcome(TRUE, <<>>, stored)
         ELSE sortAndPersist(withObservation(current, findIndex(current, obs.date), obs)) :
             current \in {getObservations(stored)}} : TRUE

RECURSIVE filterOutId(_, _)
filterOutId(arr, id) ==
    IF arr = <<>> THEN <<>>
    ELSE (IF arr[1].id # id THEN <<arr[1]>> ELSE <<>>) \o filterOutId(Tail(arr), id)

\* deleteObservation were its filter to keep o.id === id
deleteObservationInverted(stored, id) ==
    CHOOSE out \in
        {Outcome(FALSE, kept, JSONstringify(kept)) :
             kept \in {SelectSeq(getObservations(stored), LAMBDA o : o.id = id)}} : TRUE

\* deleteObservation were it to return the remainder without persisting it
deleteObservationUnpersisted(stored, id) ==
    Outcome(FALSE, filterOutId(getObservations(stored), id), stored)

deleteObservation(stored, id) ==
    CHOOSE out \in
        {IF \E i \in 1..Len(current) : ~isRecord(current[i])
         THEN Outcome(TRUE, <<>>, stored)
         ELSE CHOOSE o \in {Outcome(FALSE, updated, JSONstringify(updated)) :
                               updated \in {filterOutId(current, id)}} : TRUE :
             current \in {getObservations(stored)}} : TRUE

\* `${n}` of an integer: its decimal digits, after a minus sign when it is
\* negative
DigitChars == <<"0", "1", "2", "3", "4", "5", "6", "7", "8", "9">>

RECURSIVE digitsOf(_)
digitsOf(n) ==
    IF n < 10 THEN <<DigitChars[n + 1]>>
    ELSE digitsOf(n \div 10) \o <<DigitChars[(n % 10) + 1]>>

String(n) == IF n < 0 THEN <<"-">> \o digitsOf(0 - n) ELSE digitsOf(n)

ExportHeader ==
    <<"D", "a", "t", "e", ",", "F", "i", "g", "s", ",", "B", "a", "t", "s", ",",
      "L", "e", "a", "v", "e", "s">>

\* `${d.date},${d.figs},${d.bats},${d.leaves}`
exportRow(d) ==
    d.date \o <<",">> \o String(d.figs) \o <<",">> \o String(d.bats) \o <<",">> \o String(d.leaves)

exportToCSV(arr) ==
    join(<<ExportHeader>> \o [i \in 1..Len(arr) |-> exportRow(arr[i])], <<"\n">>)

\* one line of the input: <<>> when the row is skipped, else one row
\* <<[date, figs, bats, leaves]>>, the numbers already rounded
parseLine(rawLine, delimiter) ==
    LET line == trim(rawLine)
    IN  IF line = <<>> THEN <<>>
        ELSE LET raw   == split(line, delimiter)
                 parts == [i \in 1..Len(raw) |-> trim(raw[i])]
             IN  IF Len(parts) < 3 THEN <<>>
                 ELSE LET formattedDate == parseDate(parts[1])
                          figsVal   == parseValue(parts[2])
                          batsVal   == parseValue(parts[3])
                          leavesVal == IF Len(parts) >= 4 THEN parseValue(parts[4])
                                       ELSE parseValue(<<>>)
                      IN  IF formattedDate # Null /\ ~isNaN(figsVal) /\ ~isNaN(batsVal)
                          THEN <<[date   |-> formattedDate,
                                  figs   |-> MathRound(figsVal),
                                  bats   |-> MathRound(batsVal),
                                  leaves |-> IF isNaN(leavesVal) THEN 0
                                             ELSE MathRound(leavesVal)]>>
                          ELSE <<>>

\* the loop of importFromCSV were it to stop at the first row it skips
RECURSIVE parseLinesAborting(_, _)
parseLinesAborting(lines, delimiter) ==
    IF lines = <<>> \/ parseLine(lines[1], delimiter) = <<>> THEN <<>>
    ELSE parseLine(lines[1], delimiter) \o parseLinesAborting(Tail(lines), delimiter)

RECURSIVE parseLines(_, _)
parseLines(lines, delimiter) ==
    IF lines = <<>> THEN <<>>
    ELSE parseLine(lines[1], delimiter) \o parseLines(Tail(lines), delimiter)

\* the delimiter importFromCSV detects: a tab when the first non-blank line
\* holds one, else a comma
detectDelimiter(lines) ==
    LET nonBlank  == {i \in 1..Len(lines) : trim(lines[i]) # <<>>}
        firstLine == IF nonBlank = {} THEN <<>>
                     ELSE lines[CHOOSE i \in nonBlank : \A j \in nonBlank : i <= j]
    IN  IF includes(firstLine, "\t") THEN "\t" ELSE ","

\* the accepted rows of the input, in the order of its lines
acceptedRows(input) ==
    IF input = <<>> \/ trim(input) = <<>> THEN <<>>
    ELSE LET lines == splitLines(trim(input))
         IN  parseLines(lines, detectDelimiter(lines))

\* acceptedRows, tabulated once for the texts the store specification
\* imports
acceptedOf == [x \in StoreTexts \cup SheetTexts |-> acceptedRows(x)]

accepted(input) ==
    IF input \in DOMAIN acceptedOf THEN acceptedOf[input] ELSE acceptedRows(input)

\* importFromCSV, the ids being what Math.random gave for the pushed rows
withIds(rows, newIds) ==
    [i \in 1..Len(rows) |->
        [id |-> newIds[i], date |-> rows[i].date, figs |-> rows[i].figs,
         bats |-> rows[i].bats, leaves |-> rows[i].leaves]]

\* importFromCSV were it to merge the accepted rows into the stored records
importFromCSVMerging(stored, input, newIds) ==
    CHOOSE out \in
        {IF Len(observations) > 0
         THEN sortAndPersist(observations \o getObservations(stored))
         ELSE Outcome(FALSE, observations, stored) :
             observations \in {withIds(accepted(input), newIds)}} : TRUE

\* importFromCSV were it to persist whatever it accepted, be it nothing
importFromCSVUnguarded(stored, input, newIds) ==
    sortAndPersist(withIds(accepted(input), newIds))

importFromCSV(stored, input, newIds) ==
    CHOOSE out \in
        {IF Len(observations) > 0 THEN sortAndPersist(observations)
         ELSE Outcome(FALSE, observations, stored) :
             observations \in {withIds(accepted(input), newIds)}} : TRUE

\* fetchGoogleSheet.  The url is abstracted to what the code reads of it:
\* whether it contains "output=csv" and whether /\/d\/([a-zA-Z0-9-_]+)/
\* matches.  The response is what fetch gave: a rejection (transport
\* error), or a response with its content type, its ok flag and its text.
\* The outcome also tells whether fetch was called and the Error's reason.
SheetOutcome(reason, fetched, o) ==
    [threw |-> reason # "none", reason |-> reason, fetched |-> fetched,
     ret |-> o.ret, slot |-> o.slot]

\* fetchGoogleSheet were it to fetch without looking for the spreadsheet id
fetchGoogleSheetUnchecked(stored, url, response, newIds) ==
    IF response.kind = "rejected"
    THEN SheetOutcome("fetch failed", TRUE, Outcome(FALSE, <<>>, stored))
    ELSE IF response.html
    THEN SheetOutcome("access denied", TRUE, Outcome(FALSE, <<>>, stored))
    ELSE IF ~response.ok THEN SheetOutcome("status", TRUE, Outcome(FALSE, <<>>, stored))
    ELSE CHOOSE out \in
             {IF Len(obs.ret) = 0 THEN SheetOutcome("no valid rows", TRUE, obs)
              ELSE SheetOutcome("none", TRUE, obs) :
                  obs \in {importFromCSV(stored, response.text, newIds)}} : TRUE

\* fetchGoogleSheet were it to return the empty list of a text without
\* accepted rows
fetchGoogleSheetSilent(stored, url, response, newIds) ==
    LET nothing == Outcome(FALSE, <<>>, stored)
    IN  IF ~url.outputCsv /\ ~url.hasId THEN SheetOutcome("invalid url", FALSE, nothing)
        ELSE IF response.kind = "rejected" THEN SheetOutcome("fetch failed", TRUE, nothing)
        ELSE IF response.html THEN SheetOutcome("access denied", TRUE, nothing)
        ELSE IF ~response.ok THEN SheetOutcome("status", TRUE, nothing)
        ELSE SheetOutcome("none", TRUE, importFromCSV(stored, response.text, newIds))

\* fetchGoogleSheet were it to look at the status before the content type
fetchGoogleSheetStatusFirst(stored, url, response, newIds) ==
    LET nothing == Outcome(FALSE, <<>>, stored)
    IN  IF ~url.outputCsv /\ ~url.hasId THEN SheetOutcome("invalid url", FALSE, nothing)
        ELSE IF response.kind = "rejected" THEN SheetOutcome("fetch failed", TRUE, nothing)
        ELSE IF ~response.ok THEN SheetOutcome("status", TRUE, nothing)
        ELSE IF response.html THEN SheetOutcome("access denied", TRUE, nothing)
        ELSE CHOOSE out \in
                 {IF Len(obs.ret) = 0 THEN SheetOutcome("no valid rows", TRUE, obs)
                  ELSE SheetOutcome("none", TRUE, obs) :
                      obs \in {importFromCSV(stored, response.text, newIds)}} : TRUE

fetchGoogleSheet(stored, url, response, newIds) ==
    LET nothing == Outcome(FALSE, <<>>, stored)
    IN  IF ~url.outputCsv /\ ~url.hasId THEN SheetOutcome("invalid url", FALSE, nothing)
        ELSE IF response.kind = "rejected" THEN SheetOutcome("fetch failed", TRUE, nothing)
        ELSE IF response.html THEN SheetOutcome("access denied", TRUE, nothing)
        ELSE IF ~response.ok THEN SheetOutcome("status", TRUE, nothing)
        ELSE CHOOSE out \in
                 {IF Len(obs.ret) = 0 THEN SheetOutcome("no valid rows", TRUE, obs)
                  ELSE SheetOutcome("none", TRUE, obs) :
                      obs \in {importFromCSV(stored, response.text, newIds)}} : TRUE

----------------------------------------------------------------------------
(* The store specification: the handlers that write the slot *)

NoObs == [id |-> 0, date |-> <<>>, bats |-> 0, figs |-> 0, leaves |-> 0]

NoUrl == [outputCsv |-> FALSE, hasId |-> FALSE]

\* no response: fetch was not called
NoResponse == [kind |-> "none", html |-> FALSE, ok |-> FALSE]

NoOp == [op |-> "none", obs |-> NoObs, id |-> 0, input |-> <<>>, url |-> NoUrl,
         response |-> NoResponse,
         ret |-> <<>>, threw |-> FALSE, reason |-> "none", fetched |-> FALSE]

\* the record of an operation: its name, its arguments and its outcome
Did(op, obs, id, input, o) ==
    [op |-> op, obs |-> obs, id |-> id, input |-> input, url |-> NoUrl,
     response |-> NoResponse,
     ret |-> o.ret, threw |-> o.threw, reason |-> o.reason, fetched |-> o.fetched]

NoInput == [rows |-> <<>>, eol |-> <<"\n">>, text |-> <<>>]

\* no call of parseDate, and no call of fetchWeatherHistory
NoDate == [done |-> FALSE, ret |-> Null]

NoCall == [variant |-> "none", startDate |-> 0, endDate |-> 0, now |-> 0, dayLength |-> 0]

NoLeg == [state |-> "none", from |-> 0, to |-> 0, answer |-> "none"]

NoLegs == [archive |-> NoLeg, forecast |-> NoLeg]

NotDone == [pc |-> "idle", ret |-> <<>>, threw |-> FALSE]

\* the App before it has any data, weather, call or timer
NoWeather == [state |-> "unset", from |-> 0, to |-> 0]

NoCalls == [init |-> "none", sync |-> 0]

NoAi == [state |-> "idle", stale |-> FALSE]

AppResting ==
    /\ data = <<>>
    /\ clipboard = <<>>
    /\ weatherHistory = NoWeather
    /\ sheetCalls = NoCalls
    /\ importStatus = "idle"
    /\ resetTimers = 0
    /\ aiCall = NoAi

\* the date and weather runs and the App at rest
Resting ==
    /\ AppResting
    /\ dateInput = <<>>
    /\ dateOutput = NoDate
    /\ wxCall = NoCall
    /\ wxLegs = NoLegs
    /\ wxDone = NotDone

Init ==
    /\ slot = Missing
    /\ nextToken = 1
    /\ last = NoOp
    /\ csvInput = NoInput
    /\ Resting

\* handleSaveEntry: a new entry from the form, with a new id, goes through
\* saveObservation
SaveEntry ==
    /\ nextToken <= MaxTokens
    /\ \E date \in EntryDates, entry \in EntryValues :
        \E newEntry \in {[id |-> tokens(nextToken, 1)[1], date |-> date,
                           bats |-> entry.bats, figs |-> entry.figs,
                           leaves |-> DefaultLeaves]} :
            \E o \in {saveObservation(slot, newEntry)} :
                /\ slot' = o.slot
                /\ last' = Did("save", newEntry, 0, <<>>, o)
    /\ nextToken' = nextToken + 1
    /\ UNCHANGED <<csvInput, dateVars, weatherVars, appVars>>

\* handleDelete (confirmed by the user): the id of a listed record, or one
\* that no record has
Delete ==
    /\ \E id \in ids(getObservations(slot)) \cup {nextToken} :
        \E o \in {deleteObservation(slot, id)} :
            /\ slot' = o.slot
            /\ last' = Did("delete", NoObs, id, <<>>, o)
    /\ UNCHANGED <<nextToken, csvInput, dateVars, weatherVars, appVars>>

\* handlePasteImport: the pasted text (not blank) goes through importFromCSV
PasteImport ==
    \E input \in StoreTexts :
        \E n \in {Len(acceptedOf[input])} :
            /\ nextToken + n - 1 <= MaxTokens
            /\ \E o \in {importFromCSV(slot, input, tokens(nextToken, n))} :
                /\ slot' = o.slot
                /\ last' = Did("paste", NoObs, 0, input, o)
            /\ nextToken' = nextToken + n
            /\ UNCHANGED <<csvInput, dateVars, weatherVars, appVars>>

\* handleUrlImport and the start-up load: fetchGoogleSheet, whatever the
\* network answers
SheetImport ==
    \E url \in Urls, response \in Responses :
        \E n \in {Len(acceptedOf[response.text])} :
            /\ nextToken + n - 1 <= MaxTokens
            /\ \E o \in {fetchGoogleSheet(slot, url, response, tokens(nextToken, n))} :
                /\ slot' = o.slot
                /\ nextToken' = nextToken + (IF o.fetched /\ ~o.threw THEN n ELSE 0)
                /\ last' = [Did("sheet", NoObs, 0, response.text, o) EXCEPT
                               !.url = url,
                               !.response = IF o.fetched
                                            THEN [kind |-> response.kind, html |-> response.html,
                                                  ok |-> response.ok]
                                            ELSE NoResponse]
            /\ UNCHANGED <<csvInput, dateVars, weatherVars, appVars>>

Next == SaveEntry \/ Delete \/ PasteImport \/ SheetImport

Spec == Init /\ [][Next]_vars

----------------------------------------------------------------------------
(* The parser specification: one direct call of importFromCSV on a text of *)
(* up to MaxLines rows, the store being empty                              *)

\* rows of the text: comma and tab rows, rows with an empty figs or bats
\* field (in the middle of the line and at its end), a row of two fields,
\* header rows, a blank row, a row whose leaves are text, an ISO date with
\* a decimal count, and a row whose date is no date
RowTab == <<"0", "1", "/", "1", "0", "/", "2", "0", "2", "3", "\t", "2", "0", "\t", "1", "0">>
RowCommaNoBats == <<"0", "1", "/", "1", "0", "/", "2", "0", "2", "3", ",", "2", "0", ",">>
RowTabNoBats == <<"0", "1", "/", "1", "0", "/", "2", "0", "2", "3", "\t", "2", "0", "\t">>
RowTabNoFigs == <<"0", "2", "/", "1", "0", "/", "2", "0", "2", "3", "\t", "\t", "1", "0">>
RowTwoFields == <<"0", "1", "/", "1", "0", "/", "2", "0", "2", "3", ",", "2", "0">>
RowHeaderTab == <<"D", "a", "t", "e", "\t", "F", "i", "g", "s", "\t", "B", "a", "t", "s">>
RowBlank == <<" ">>
RowLeavesText == <<"0", "4", "/", "1", "0", "/", "2", "0", "2", "3", ",", "5", ",", "5", ",", "x">>
RowIsoDecimal == <<"2", "0", "2", "3", "-", "1", "0", "-", "0", "5", ",", "1", ".", "5", ",", "2">>
RowNoDate == <<"j", "u", "n", "k", ",", "1", ",", "2">>

ParseRows == {RowOct1, RowHeader, RowTab, RowCommaNoBats, RowTabNoBats, RowTabNoFigs, RowTwoFields, RowHeaderTab, RowBlank, RowLeavesText, RowIsoDecimal, RowNoDate}

LineEndings == {<<"\n">>, <<"\r", "\n">>}

ParseInputs ==
    {[rows |-> rows, eol |-> eol, text |-> join(rows, eol)] :
         rows \in SeqsUpTo(ParseRows, MaxLines), eol \in LineEndings}

InitParse ==
    /\ slot = Missing
    /\ nextToken = 1
    /\ last = NoOp
    /\ csvInput \in ParseInputs
    /\ Resting

\* importFromCSV(csvInput.text), called once
Parse ==
    /\ last.op = "none"
    /\ \E n \in {Len(accepted(csvInput.text))} :
        /\ \E o \in {importFromCSV(slot, csvInput.text, tokens(nextToken, n))} :
            /\ slot' = o.slot
            /\ last' = Did("import", NoObs, 0, csvInput.text, o)
        /\ nextToken' = nextToken + n
    /\ UNCHANGED <<csvInput, dateVars, weatherVars, appVars>>

NextParse == Parse

SpecParse == InitParse /\ [][NextParse]_vars

----------------------------------------------------------------------------
(* The corrupt-slot specification: the handlers of the store, started on   *)
(* a slot that holds no serialized record array                            *)

\* the slot missing, the empty text, text JSON.parse rejects, and the JSON
\* texts "null", "{}" and "[null]"
CorruptSlots ==
    {Missing,
     [kind |-> "empty", items |-> <<>>],
     [kind |-> "invalid", items |-> <<>>],
     [kind |-> "null", items |-> <<>>],
     [kind |-> "object", items |-> <<>>],
     [kind |-> "array", items |-> <<JsonNull>>]}

InitCorrupt ==
    /\ slot \in CorruptSlots
    /\ nextToken = 1
    /\ last = NoOp
    /\ csvInput = NoInput
    /\ Resting

SpecCorrupt == InitCorrupt /\ [][Next]_vars

----------------------------------------------------------------------------
(* The date specification: one call of parseDate on a text                 *)

\* the parts the texts are made of: four-digit years, years of two and of
\* three digits, months (one digit, two digits, and 13), days (1, 29, 30
\* and 32), and the two separators
Years == {<<"2", "0", "2", "3">>, <<"2", "0", "2", "4">>}
ShortYears == {<<"2", "3">>, <<"0", "2", "3">>}
Months == {<<"2">>, <<"0", "2">>, <<"1", "3">>}
Days == {<<"1">>, <<"2", "9">>, <<"3", "0">>, <<"3", "2">>}

\* year, month, day
IsoTexts ==
    {y \o <<a>> \o m \o <<a>> \o d : y \in Years, m \in Months, d \in Days, a \in DateSeps}

\* day, month, year
DayFirstTexts ==
    {d \o <<a>> \o m \o <<a>> \o y :
         d \in Days, m \in Months, y \in Years \cup ShortYears, a \in DateSeps}

\* eight digits (a date, and 99 99 2023), and seven
CompactTexts == {<<"0", "1", "1", "0", "2", "0", "2", "3">>, <<"9", "9", "9", "9", "2", "0", "2", "3">>, <<"0", "1", "1", "0", "2", "0", "2">>}

\* the empty text, text that is no date, a date with a time and spaces
\* around it, and an ISO date-time
OtherTexts == {<<>>, <<" ", "2", "0", "2", "3", "-", "1", "0", "-", "0", "1", " ", "1", "2", ":", "0", "0", " ">>, <<"j", "u", "n", "k">>, <<"2", "0", "2", "3", "-", "1", "0", "-", "0", "1", "T", "0", "0", ":", "0", "0">>}

DateTexts == IsoTexts \cup DayFirstTexts \cup CompactTexts \cup OtherTexts

InitDate ==
    /\ slot = Missing
    /\ nextToken = 1
    /\ last = NoOp
    /\ csvInput = NoInput
    /\ dateInput \in DateTexts
    /\ dateOutput = NoDate
    /\ wxCall = NoCall
    /\ wxLegs = NoLegs
    /\ wxDone = NotDone
    /\ AppResting

\* parseDate(dateInput), called once
Normalize ==
    /\ ~dateOutput.done
    /\ dateOutput' = [done |-> TRUE, ret |-> parseDate(dateInput)]
    /\ UNCHANGED <<storeVars, dateInput, weatherVars, appVars>>

NextDate == Normalize

SpecDate == InitDate /\ [][NextDate]_vars

----------------------------------------------------------------------------
(* weatherService.ts *)

\* A day is a number of days, a time a number of hours (of UTC); the day 0
\* starts at the time 0.
HoursPerDay == 24

\* the days the archive is behind
CutoffDays == 7

\* new Date("YYYY-MM-DD").getTime(): the time a day starts at (UTC)
timeOf(day) == day * HoursPerDay

\* date.toISOString().split('T')[0]: the day (of UTC) a time falls in
dateOf(time) == time \div HoursPerDay

\* new Date(today.valueOf() - 7 * 24 * 60 * 60 * 1000)
cutoffDate(call) == call.now - CutoffDays * HoursPerDay

cutoffStr(call) == dateOf(cutoffDate(call))

\* nextDay.setDate(nextDay.getDate() + 1): the same local time on the next
\* local day, which is as many hours later as that local day is long
nextDay(call) == cutoffDate(call) + call.dayLength

nextDayStr(call) == dateOf(nextDay(call))

\* a query for the days from..to, not yet answered
Query(from, to) == [state |-> "pending", from |-> from, to |-> to, answer |-> "none"]

\* the queries fetchWeatherHistory of weatherService.ts issues before it
\* first waits: the forecast alone, the archive alone, or both
issueSplit(call) ==
    IF timeOf(call.startDate) > cutoffDate(call)
    THEN [archive |-> NoLeg, forecast |-> Query(call.startDate, call.endDate)]
    ELSE IF timeOf(call.endDate) <= cutoffDate(call)
    THEN [archive |-> Query(call.startDate, call.endDate), forecast |-> NoLeg]
    ELSE [archive  |-> Query(call.startDate, cutoffStr(call)),
          forecast |-> IF timeOf(nextDayStr(call)) <= timeOf(call.endDate)
                       THEN Query(nextDayStr(call), call.endDate)
                       ELSE NoLeg]

\* the one query of the fetchWeatherHistory that asks the archive only
issueSingle(call) ==
    [archive |-> Query(call.startDate, call.endDate), forecast |-> NoLeg]

\* a value of a daily series: a number, or null
Reading(value) == [missing |-> FALSE, value |-> value]
NoReading == [missing |-> TRUE, value |-> 0]

\* x || 0
orZero(x) == IF x.missing \/ x.value = 0 THEN 0 ELSE x.value

\* the body of an answer: for "days" the days asked for, ascending, each
\* with a maximum temperature and no precipitation value; for "nodaily" a
\* body without a daily series
jsonOf(leg) ==
    IF leg.answer # "days" THEN [hasDaily |-> FALSE, time |-> <<>>, temperature_2m_max |-> <<>>,
                                 precipitation_sum |-> <<>>]
    ELSE [hasDaily |-> TRUE,
          time |-> [i \in 1..(leg.to - leg.from + 1) |-> leg.from + i - 1],
          temperature_2m_max |-> [i \in 1..(leg.to - leg.from + 1) |-> Reading(30)],
          precipitation_sum |-> [i \in 1..(leg.to - leg.from + 1) |-> NoReading]]

parseMeteoResponse(json) ==
    IF ~json.hasDaily THEN <<>>
    ELSE [index \in 1..Len(json.time) |->
              [date    |-> json.time[index],
               tempMax |-> orZero(json.temperature_2m_max[index]),
               rain    |-> orZero(json.precipitation_sum[index])]]

Leg == {"archive", "forecast"}

issued(legs) == {l \in Leg : legs[l].state # "none"}

\* what one query adds to results: nothing unless it was issued and its
\* response is ok
partOf(leg) ==
    IF leg.state = "fulfilled" /\ leg.answer # "status"
    THEN parseMeteoResponse(jsonOf(leg))
    ELSE <<>>

\* the awaits of fetchWeatherHistory end: with every query fulfilled, or
\* with the first one that is rejected (Promise.all rejects at once)
awaited(legs) ==
    \/ \E l \in issued(legs) : legs[l].state = "rejected"
    \/ \A l \in issued(legs) : legs[l].state = "fulfilled"

\* the body of the try block of weatherService.ts, from the await on
collectSplit(legs) ==
    IF \E l \in issued(legs) : legs[l].state = "rejected"
    THEN [raised |-> TRUE, ret |-> <<>>]
    ELSE [raised |-> FALSE, ret |-> partOf(legs.archive) \o partOf(legs.forecast)]

\* the body of the try block of the archive-only fetchWeatherHistory: a
\* response that is not ok is thrown
collectSingle(legs) ==
    IF legs.archive.state = "rejected" \/ legs.archive.answer = "status"
    THEN [raised |-> TRUE, ret |-> <<>>]
    ELSE [raised |-> FALSE, ret |-> partOf(legs.archive)]

\* a try block without its catch: what is raised reaches the caller
propagate(tried) ==
    [pc |-> "done", ret |-> tried.ret, threw |-> tried.raised]

\* catch (error) { console.error(...); return []; }
catchAll(tried) ==
    [pc |-> "done", ret |-> IF tried.raised THEN <<>> ELSE tried.ret, threw |-> FALSE]

----------------------------------------------------------------------------
(* The weather specification: one call of fetchWeatherHistory, its queries *)
(* answered in any order                                                   *)

\* the hour of the day (UTC) the call is made at
ClockHours == {0, 12, 23}

\* the length of the local day after the cutoff: 24 hours, or 23 and 25
\* where the local time zone changes its clock on that day
DayLengths == {23, 24, 25}

Variants == {"split", "single"}

\* a query is answered by the days asked for, by a response that is not ok,
\* by a transport error, or by an ok response without a daily series
Answers == {"days", "status", "error", "nodaily"}

\* the calls: the range startDate..endDate around the cutoff day, which is
\* the day 0
Calls ==
    {[variant |-> v, startDate |-> a, endDate |-> b,
      now |-> timeOf(CutoffDays) + h, dayLength |-> n] :
         v \in Variants, a \in (0 - MaxSpan)..MaxSpan, b \in (0 - MaxSpan)..MaxSpan,
         h \in ClockHours, n \in DayLengths}

InitWeather ==
    /\ slot = Missing
    /\ nextToken = 1
    /\ last = NoOp
    /\ csvInput = NoInput
    /\ dateInput = <<>>
    /\ dateOutput = NoDate
    /\ wxCall \in {c \in Calls : c.startDate <= c.endDate}
    /\ wxLegs = NoLegs
    /\ wxDone = [pc |-> "called", ret |-> <<>>, threw |-> FALSE]
    /\ AppResting

\* fetchWeatherHistory up to its first await: the queries are sent
Issue ==
    /\ wxDone.pc = "called"
    /\ wxLegs' = IF wxCall.variant = "split" THEN issueSplit(wxCall) ELSE issueSingle(wxCall)
    /\ wxDone' = [wxDone EXCEPT !.pc = "awaiting"]
    /\ UNCHANGED <<storeVars, dateVars, appVars, wxCall>>

\* the network answers a query that is pending, whether or not the call
\* still waits for it
Settle ==
    /\ \E l \in Leg, answer \in Answers :
        /\ wxLegs[l].state = "pending"
        /\ wxLegs' = [wxLegs EXCEPT
                         ![l].state = IF answer = "error" THEN "rejected" ELSE "fulfilled",
                         ![l].answer = answer]
    /\ UNCHANGED <<storeVars, dateVars, appVars, wxCall, wxDone>>

\* fetchWeatherHistory from its await to its return
Complete ==
    /\ wxDone.pc = "awaiting"
    /\ awaited(wxLegs)
    /\ wxDone' = IF wxCall.variant = "split" THEN catchAll(collectSplit(wxLegs))
                 ELSE catchAll(collectSingle(wxLegs))
    /\ UNCHANGED <<storeVars, dateVars, appVars, wxCall, wxLegs>>

NextWeather == Issue \/ Settle \/ Complete

SpecWeather == InitWeather /\ [][NextWeather]_vars

----------------------------------------------------------------------------
(* DataSync: the handlers of the sync view *)

\* onDataUpdate were it to leave the App's data as it is
onDataUpdateDropped(current, newData) == current

\* onDataUpdate, which the App passes as setData
onDataUpdate(current, newData) == newData

\* a call of analyzeData or askSpecificQuestion in flight holds the array
\* that data was when it was made: once setData has put another array in
\* its place, the call no longer holds the App's data
replaced(call) == [call EXCEPT !.stale = TRUE]

\* handlePasteImport on a text that is not blank, recorded as op
handlePasteImport(input, op) ==
    \E n \in {Len(accepted(input))} :
        \E o \in {importFromCSV(slot, input, tokens(nextToken, n))} :
            /\ slot' = o.slot
            /\ nextToken' = nextToken + n
            /\ last' = Did(op, NoObs, 0, input, o)
            /\ IF Len(o.ret) > 0
               THEN /\ data' = onDataUpdate(data, o.ret)
                    /\ aiCall' = replaced(aiCall)
                    /\ importStatus' = "success"
                    /\ resetTimers' = resetTimers + 1
               ELSE /\ importStatus' = "error"
                    /\ UNCHANGED <<data, aiCall, resetTimers>>

\* handleCopy: the data as CSV, written to the clipboard
handleCopy ==
    clipboard' = exportToCSV(data)

----------------------------------------------------------------------------
(* The round-trip specification: a well-formed text is imported, the data *)
(* is copied as CSV, and the copy is imported                              *)

RowIso == <<"2", "0", "2", "3", "-", "1", "0", "-", "0", "5", ",", "1", "5", ",", "2", ",", "0">>
RowNegative == <<"0", "6", "/", "1", "0", "/", "2", "0", "2", "3", ",", "-", "5", ",", "3", ",", "1", "2">>

\* rows of an accepted date and integer figs, bats and leaves
RoundRows == {RowOct1, RowOct3, RowMonth13, RowTab, RowIso, RowNegative}

RoundInputs ==
    {[rows |-> rows, eol |-> eol, text |-> join(rows, eol)] :
         rows \in {r \in SeqsUpTo(RoundRows, MaxLines) :
                      \A i, j \in 1..Len(r) : includes(r[i], "\t") <=> includes(r[j], "\t")},
         eol \in LineEndings}

InitRound ==
    /\ slot = Missing
    /\ nextToken = 1
    /\ last = NoOp
    /\ csvInput \in RoundInputs
    /\ Resting

\* the text is pasted and imported
RoundImport ==
    /\ last.op = "none"
    /\ handlePasteImport(csvInput.text, "paste")
    /\ UNCHANGED <<csvInput, dateVars, weatherVars, clipboard, weatherHistory, sheetCalls>>

\* the data is copied
RoundCopy ==
    /\ last.op = "paste"
    /\ clipboard = <<>>
    /\ handleCopy
    /\ UNCHANGED <<storeVars, dateVars, weatherVars, data, weatherHistory, sheetCalls,
                   importStatus, resetTimers, aiCall>>

\* the copy is pasted and imported
RoundPasteBack ==
    /\ last.op = "paste"
    /\ clipboard # <<>>
    /\ handlePasteImport(clipboard, "repaste")
    /\ UNCHANGED <<csvInput, dateVars, weatherVars, clipboard, weatherHistory, sheetCalls>>

NextRound == RoundImport \/ RoundCopy \/ RoundPasteBack

SpecRound == InitRound /\ [][NextRound]_vars

----------------------------------------------------------------------------
(* The App specification: the handlers of the App and of the sync view,   *)
(* interleaved with the answers to the calls in flight                     *)

\* the record the store may hold when the App starts
StartRecord ==
    [id |-> 1, date |-> <<"2", "0", "2", "3", "-", "1", "0", "-", "0", "3">>,
     bats |-> 10, figs |-> 20, leaves |-> DefaultLeaves]

StartSlots == {Missing, JSONstringify(<<StartRecord>>)}

\* what the form holds when the entry is saved
AppEntries == {[bats |-> 100, figs |-> 30]}

\* the texts pasted in the sync view: a row, and a header alone
AppTexts == {RowOct1, RowHeader}

\* the answers to a fetch of a sheet: a rejection, an HTML page, a
\* non-success status, a sheet of one row and a sheet of a header alone
AppResponses ==
    {r \in Responses : r.text \in {RowOct3, RowHeader} /\ (r.html => ~r.ok)}

\* a url fetchGoogleSheet fetches
SheetUrl == [outputCsv |-> FALSE, hasId |-> TRUE]

\* Math.min(...dates) and Math.max(...dates) of the dates of the data, in
\* days; {} when a date is no date (toISOString then throws)
spanOf(arr) ==
    IF \E i \in 1..Len(arr) : getTime(arr[i].date).nan THEN {}
    ELSE {[state |-> "pending",
           from |-> CHOOSE t \in {getTime(arr[i].date).t : i \in 1..Len(arr)} :
                        \A i \in 1..Len(arr) : t <= getTime(arr[i].date).t,
           to   |-> CHOOSE t \in {getTime(arr[i].date).t : i \in 1..Len(arr)} :
                        \A i \in 1..Len(arr) : t >= getTime(arr[i].date).t]}

\* the end of initData: fetchWeatherHistory is called for the span of
\* currentData, if it holds a record
weatherFor(currentData) ==
    IF Len(currentData) > 0 /\ spanOf(currentData) # {}
    THEN CHOOSE w \in spanOf(currentData) : TRUE
    ELSE weatherHistory

\* the App is mounted: initData has run to its first await
InitApp ==
    /\ slot \in StartSlots
    /\ nextToken = 1 + Len(slot.items)
    /\ last = NoOp
    /\ csvInput = NoInput
    /\ dateInput = <<>>
    /\ dateOutput = NoDate
    /\ wxCall = NoCall
    /\ wxLegs = NoLegs
    /\ wxDone = NotDone
    /\ data = getObservations(slot)
    /\ clipboard = <<>>
    /\ weatherHistory = IF Len(getObservations(slot)) > 0
                        THEN CHOOSE w \in spanOf(getObservations(slot)) : TRUE
                        ELSE NoWeather
    /\ sheetCalls = [init |-> IF Len(getObservations(slot)) > 0 THEN "none" ELSE "pending",
                     sync |-> 0]
    /\ importStatus = "idle"
    /\ resetTimers = 0
    /\ aiCall = NoAi

\* handleSaveEntry
AppSave ==
    /\ nextToken <= MaxTokens
    /\ \E date \in EntryDates, entry \in AppEntries :
        \E newEntry \in {[id |-> tokens(nextToken, 1)[1], date |-> date,
                           bats |-> entry.bats, figs |-> entry.figs,
                           leaves |-> DefaultLeaves]} :
            \E o \in {saveObservation(slot, newEntry)} :
                /\ slot' = o.slot
                /\ last' = Did("save", newEntry, 0, <<>>, o)
                /\ data' = o.ret
    /\ nextToken' = nextToken + 1
    /\ aiCall' = replaced(aiCall)
    /\ UNCHANGED <<csvInput, dateVars, weatherVars, clipboard, weatherHistory, sheetCalls,
                   importStatus, resetTimers>>

\* handleDelete of a record that is shown, confirmed by the user
AppDelete ==
    /\ \E id \in ids(data) :
        \E o \in {deleteObservation(slot, id)} :
            /\ slot' = o.slot
            /\ last' = Did("delete", NoObs, id, <<>>, o)
            /\ data' = o.ret
    /\ aiCall' = replaced(aiCall)
    /\ UNCHANGED <<nextToken, csvInput, dateVars, weatherVars, clipboard, weatherHistory,
                   sheetCalls, importStatus, resetTimers>>

\* handlePasteImport of a pasted text
AppPaste ==
    \E input \in AppTexts :
        /\ nextToken + Len(acceptedOf[input]) - 1 <= MaxTokens
        /\ handlePasteImport(input, "paste")
        /\ UNCHANGED <<csvInput, dateVars, weatherVars, clipboard, weatherHistory, sheetCalls>>

\* handleUrlImport up to its await: the buttons are disabled while
\* importStatus is 'loading'; a url fetchGoogleSheet rejects ends the
\* handler at once, any other is fetched
UrlImport ==
    /\ importStatus # "loading"
    /\ \E url \in Urls :
        IF ~url.outputCsv /\ ~url.hasId
        THEN /\ importStatus' = "error"
             /\ UNCHANGED sheetCalls
        ELSE /\ sheetCalls.sync < MaxCalls
             /\ importStatus' = "loading"
             /\ sheetCalls' = [sheetCalls EXCEPT !.sync = @ + 1]
    /\ UNCHANGED <<storeVars, dateVars, weatherVars, data, clipboard, weatherHistory,
                   resetTimers, aiCall>>

\* handleUrlImport from its await on: the fetch is answered
UrlImportSettles ==
    /\ sheetCalls.sync > 0
    /\ \E response \in AppResponses :
        \E n \in {Len(acceptedOf[response.text])} :
            /\ nextToken + n - 1 <= MaxTokens
            /\ \E o \in {fetchGoogleSheet(slot, SheetUrl, response, tokens(nextToken, n))} :
                /\ slot' = o.slot
                /\ nextToken' = nextToken + (IF ~o.threw THEN n ELSE 0)
                /\ last' = [Did("sheet", NoObs, 0, response.text, o) EXCEPT
                               !.url = SheetUrl,
                               !.response = [kind |-> response.kind, html |-> response.html,
                                             ok |-> response.ok]]
                /\ IF ~o.threw
                   THEN /\ data' = onDataUpdate(data, o.ret)
                        /\ aiCall' = replaced(aiCall)
                        /\ importStatus' = "success"
                        /\ resetTimers' = resetTimers + 1
                   ELSE /\ importStatus' = "error"
                        /\ UNCHANGED <<data, aiCall, resetTimers>>
    /\ sheetCalls' = [sheetCalls EXCEPT !.sync = @ - 1]
    /\ UNCHANGED <<csvInput, dateVars, weatherVars, clipboard, weatherHistory>>

\* initData from the await of the default sheet on: the data is set when
\* the sheet was imported, and the weather is asked for
DefaultSheetSettles ==
    /\ sheetCalls.init = "pending"
    /\ \E response \in AppResponses :
        \E n \in {Len(acceptedOf[response.text])} :
            /\ nextToken + n - 1 <= MaxTokens
            /\ \E o \in {fetchGoogleSheet(slot, SheetUrl, response, tokens(nextToken, n))} :
                /\ slot' = o.slot
                /\ nextToken' = nextToken + (IF ~o.threw THEN n ELSE 0)
                /\ last' = [Did("sheet", NoObs, 0, response.text, o) EXCEPT
                               !.url = SheetUrl,
                               !.response = [kind |-> response.kind, html |-> response.html,
                                             ok |-> response.ok]]
                /\ IF ~o.threw
                   THEN /\ data' = o.ret
                        /\ aiCall' = replaced(aiCall)
                        /\ weatherHistory' = weatherFor(o.ret)
                   ELSE /\ UNCHANGED <<data, aiCall, weatherHistory>>
    /\ sheetCalls' = [sheetCalls EXCEPT !.init = "done"]
    /\ UNCHANGED <<csvInput, dateVars, weatherVars, clipboard, importStatus, resetTimers>>

\* initData from the await of fetchWeatherHistory on: setWeatherHistory
WeatherSettles ==
    /\ weatherHistory.state = "pending"
    /\ weatherHistory' = [weatherHistory EXCEPT !.state = "set"]
    /\ UNCHANGED <<storeVars, dateVars, weatherVars, data, clipboard, sheetCalls,
                   importStatus, resetTimers, aiCall>>

\* the timer of a successful import: setImportStatus('idle')
ResetTimerFires ==
    /\ resetTimers > 0
    /\ resetTimers' = resetTimers - 1
    /\ importStatus' = "idle"
    /\ UNCHANGED <<storeVars, dateVars, weatherVars, data, clipboard, weatherHistory,
                   sheetCalls, aiCall>>

\* handleAnalyze (with three observations or more) and handleAskQuestion,
\* up to the await of fetchWeatherHistory; without an API key the call
\* returns at once
AiCallStarts ==
    /\ aiCall.state = "idle"
    /\ \E handler \in {"analyze", "ask"}, apiKey \in BOOLEAN :
        /\ (handler = "analyze") => (Len(data) >= 3)
        /\ aiCall' = IF apiKey THEN [state |-> "pending", stale |-> FALSE] ELSE aiCall
    /\ UNCHANGED <<storeVars, dateVars, weatherVars, data, clipboard, weatherHistory,
                   sheetCalls, importStatus, resetTimers>>

\* analyzeData and askSpecificQuestion after fetchWeatherHistory returned:
\* getContextString sorts the array it was given, which is the App's data
\* unless setData has replaced it
AiCallProceeds ==
    /\ aiCall.state = "pending"
    /\ data' = IF aiCall.stale THEN data ELSE sortOldestFirst(data)
    /\ aiCall' = NoAi
    /\ UNCHANGED <<storeVars, dateVars, weatherVars, clipboard, weatherHistory,
                   sheetCalls, importStatus, resetTimers>>

NextApp ==
    \/ AppSave
    \/ AppDelete
    \/ AppPaste
    \/ UrlImport
    \/ UrlImportSettles
    \/ DefaultSheetSettles
    \/ WeatherSettles
    \/ ResetTimerFires
    \/ AiCallStarts
    \/ AiCallProceeds

SpecApp == InitApp /\ [][NextApp]_vars

----------------------------------------------------------------------------
(* Properties of the store *)

\* list(): what getObservations returns in this state
listed == getObservations(slot)

Imports == {"paste", "sheet", "import"}

\* a canonical date YYYY-MM-DD as the number YYYYMMDD
dateKey(date) ==
    CHOOSE k \in {DecVal(p[1]) * 10000 + DecVal(p[2]) * 100 + DecVal(p[3]) :
                     p \in {split(date, "-")}} : TRUE

Descending(arr) ==
    \A i \in 1..(Len(arr) - 1) : dateKey(arr[i].date) >= dateKey(arr[i + 1].date)

\* C1: in every state reachable from the empty store by upserts, deletes
\* and imports, the persisted store holds at most one observation per date.
C1OnePerDate ==
    \A i, j \in 1..Len(slot.items) :
        i # j => slot.items[i].date # slot.items[j].date

\* C2: an upsert for a date the store already holds leaves every record
\* of that date with the new bats, figs and leaves and with an id a record
\* of that date had before (not the id of the argument), and leaves the
\* number of stored records unchanged.
C2UpsertReplaces ==
    [][(/\ last'.op = "save"
        /\ \E i \in 1..Len(listed) : listed[i].date = last'.obs.date)
       => /\ ~last'.threw
          /\ Len(getObservations(slot')) = Len(listed)
          /\ \A r \in {getObservations(slot')[k] : k \in 1..Len(getObservations(slot'))} :
                r.date = last'.obs.date
                => /\ r.bats = last'.obs.bats
                   /\ r.figs = last'.obs.figs
                   /\ r.leaves = last'.obs.leaves
                   /\ r.id # last'.obs.id
                   /\ \E i \in 1..Len(listed) :
                          listed[i].date = r.date /\ listed[i].id = r.id]_vars

\* C3 as stated: a stored observation stays in the store in every step
\* that is not a delete with its id; no upsert and no import removes it.
C3OnlyDeleteRemoves ==
    [][ids(slot.items) \ ids(slot'.items) \subseteq
           (IF last'.op = "delete" THEN {last'.id} ELSE {})]_vars

\* C3: a stored observation stays in the store in every step that is
\* neither a delete with its id nor an import that accepts at least one
\* row: no upsert and no import that accepts nothing removes it.
C3DeleteOrImportRemoves ==
    [][\/ last'.op \in Imports /\ Len(last'.ret) > 0
       \/ ids(slot.items) \ ids(slot'.items) \subseteq
              (IF last'.op = "delete" THEN {last'.id} ELSE {})]_vars

\* an import that accepted no row has left two stored observations in place
C3Witness ==
    /\ last.op \in Imports
    /\ Len(last.ret) = 0
    /\ Len(slot.items) >= 2

\* C4: a delete with an id no stored record has raises no error and leaves
\* list() as it was: the same records in the same order.
C4DeleteUnknownId ==
    [][(last'.op = "delete" /\ last'.id \notin ids(listed))
       => /\ ~last'.threw
          /\ getObservations(slot') = listed]_vars

\* a delete with an id that was never given out, on a store of two records
C4Witness ==
    /\ last.op = "delete"
    /\ last.id = nextToken
    /\ ~last.threw
    /\ Len(listed) >= 2

\* C5: after an import that accepts at least one row the persisted store
\* holds exactly the records the import returned, and none of the records
\* stored before it.
C5ImportOverwrites ==
    [][(last'.op \in Imports /\ Len(last'.ret) > 0)
       => /\ slot' = JSONstringify(last'.ret)
          /\ ids(getObservations(slot')) \cap ids(listed) = {}]_vars

\* an import has accepted rows after earlier records had been stored
C5Witness ==
    /\ last.op \in {"paste", "sheet"}
    /\ Len(last.ret) > 0
    /\ nextToken > Len(last.ret) + 1
    /\ slot = JSONstringify(last.ret)

\* C6: list() and the sequence an upsert returns and persists are ordered
\* by date descending: of two adjacent records the earlier one's date is
\* not older than the later one's, for every date the Date Normalizer gives.
C6NewestFirst ==
    /\ Descending(listed)
    /\ (last.op = "save" /\ ~last.threw)
           => Descending(last.ret) /\ slot = JSONstringify(last.ret)

\* C7: on a slot that is missing, empty or holds text that is no serialized
\* record array, list() is the empty list, and an upsert and a delete raise
\* no error and treat the store as empty.
C7CorruptSlotIsEmpty ==
    [][(slot \in CorruptSlots)
       => /\ listed = <<>>
          /\ (last'.op = "save") => (~last'.threw /\ last'.ret = <<last'.obs>>)
          /\ (last'.op = "delete") => (~last'.threw /\ Len(last'.ret) = 0)]_vars

\* C11: the sequence importFromCSV returns is sorted by date descending
\* for every input, its accepted rows' dates being what the day-first and
\* compact forms give without a calendar check.
C11ImportReturnsNewestFirst ==
    (last.op \in Imports /\ ~last.threw) => Descending(last.ret)

\* C20 as stated: fetchGoogleSheet on a URL without a /d/<id>/ document
\* identifier fails with the invalid-URL reason and issues no request.
C20NoIdNoRequest ==
    (last.op = "sheet" /\ ~last.url.hasId)
    => (last.threw /\ last.reason = "invalid url" /\ ~last.fetched)

\* C20: fetchGoogleSheet on a URL that has no /d/<id>/ document identifier
\* and does not contain "output=csv" fails with the invalid-URL reason,
\* issues no request and leaves the store as it was.
C20NoIdNoCsvNoRequest ==
    [][(last'.op = "sheet" /\ ~last'.url.hasId /\ ~last'.url.outputCsv)
       => /\ last'.threw
          /\ last'.reason = "invalid url"
          /\ ~last'.fetched
          /\ slot' = slot]_vars

\* fetchGoogleSheet has refused a URL that has neither
C20Witness ==
    /\ last.op = "sheet"
    /\ ~last.url.hasId
    /\ ~last.url.outputCsv
    /\ last.reason = "invalid url"
    /\ ~last.fetched

----------------------------------------------------------------------------
(* Properties of the parser *)

\* the delimiter importFromCSV detects for csvInput
detected == detectDelimiter(splitLines(trim(csvInput.text)))

\* the delimited fields of a row, each trimmed
fieldsOf(row, delimiter) ==
    CHOOSE out \in {[i \in 1..Len(f) |-> trim(f[i])] : f \in {split(row, delimiter)}} : TRUE

\* at least three fields, a date the Date Normalizer accepts, and figs and
\* bats that coerce to numbers
Acceptable(f) ==
    /\ Len(f) >= 3
    /\ parseDate(f[1]) # Null
    /\ ~isNaN(parseValue(f[2]))
    /\ ~isNaN(parseValue(f[3]))

\* C8: a row is accepted if and only if it has at least three delimited
\* fields, its date field is accepted by the Date Normalizer and its figs
\* and bats fields coerce to numbers (the leaves field plays no part): the
\* import returns as many records as the text has such rows.
C8AcceptedIffThreeFields ==
    last.op = "import"
    => Len(last.ret) =
           Cardinality({i \in 1..Len(csvInput.rows) :
                            Acceptable(fieldsOf(csvInput.rows[i], detected))})

\* C9: a row with a valid date whose figs or bats field is the empty
\* string, the other being a number, is accepted with 0 for the empty
\* field, for tab and for comma alike, also when the empty field ends the
\* line.
C9EmptyFieldIsZero ==
    last.op = "import"
    => \A i \in 1..Len(csvInput.rows) :
           \A f \in {fieldsOf(csvInput.rows[i], detected)} :
               (Acceptable(f) /\ (f[2] = <<>> \/ f[3] = <<>>))
               => \E k \in 1..Len(last.ret) :
                      /\ last.ret[k].date = parseDate(f[1])
                      /\ last.ret[k].figs = (IF f[2] = <<>> THEN 0
                                             ELSE MathRound(parseValue(f[2])))
                      /\ last.ret[k].bats = (IF f[3] = <<>> THEN 0
                                             ELSE MathRound(parseValue(f[3])))

tuplesOf(recs) ==
    [i \in 1..Len(recs) |-> <<recs[i].date, recs[i].figs, recs[i].bats, recs[i].leaves>>]

count(seq, t) == Cardinality({i \in 1..Len(seq) : seq[i] = t})

sameBag(a, b) ==
    /\ Len(a) = Len(b)
    /\ \A i \in 1..Len(a) : count(a, a[i]) = count(b, a[i])

\* what a row yields when it is the whole input, the delimiter being given
alone(row, delimiter) ==
    IF trim(row) = <<>> THEN <<>>
    ELSE parseLines(splitLines(trim(row)), delimiter)

RECURSIVE eachAlone(_, _)
eachAlone(rows, delimiter) ==
    IF rows = <<>> THEN <<>>
    ELSE alone(rows[1], delimiter) \o eachAlone(Tail(rows), delimiter)

removeAt(rows, k) == SubSeq(rows, 1, k - 1) \o SubSeq(rows, k + 1, Len(rows))

\* C10: a malformed row never aborts the batch.  The detected delimiter
\* being fixed, the accepted (date, figs, bats, leaves) tuples of a text
\* are, as a multiset, those its rows yield when parsed alone; a text
\* without one of its rejected rows after the first line, detecting the
\* same delimiter, yields the same tuples; and the parser raises no error.
C10RowsAreIndependent ==
    last.op = "import"
    => /\ ~last.threw
       /\ sameBag(tuplesOf(last.ret), tuplesOf(eachAlone(csvInput.rows, detected)))
       /\ \A k \in 2..Len(csvInput.rows) :
              \A shorter \in {join(removeAt(csvInput.rows, k), csvInput.eol)} :
                  (/\ alone(csvInput.rows[k], detected) = <<>>
                   /\ detectDelimiter(splitLines(trim(shorter))) = detected)
                  => sameBag(tuplesOf(last.ret), tuplesOf(acceptedRows(shorter)))

\* a text whose first row is a header and whose second row is accepted
C10Witness ==
    /\ last.op = "import"
    /\ Len(csvInput.rows) = 2
    /\ alone(csvInput.rows[1], detected) = <<>>
    /\ trim(csvInput.rows[1]) # <<>>
    /\ Len(last.ret) = 1

----------------------------------------------------------------------------
(* Properties of the Date Normalizer *)

\* the part of the text parseDate matches: trimmed, up to the first space
datePartOf(text) == IF text = <<>> THEN <<>> ELSE split(trim(text), " ")[1]

\* the text is of the form YYYY[-/]M[-/]D
IsoLike(text) == matchThree(datePartOf(text), {4}, {1, 2}, {1, 2}) # <<>>

\* a canonical string names a day of the calendar
RealDate(date) ==
    \E y \in {DecVal(SubSeq(date, 1, 4))}, m \in {DecVal(SubSeq(date, 6, 7))} :
        /\ m \in 1..12
        /\ DecVal(SubSeq(date, 9, 10)) \in 1..DaysInMonth(y, m)

\* C12: parseDate returns null or a string of the canonical shape, four
\* digits, '-', two digits, '-', two digits, and nothing of another shape.
C12NullOrCanonical ==
    dateOutput.done => (dateOutput.ret = Null \/ IsIsoShape(dateOutput.ret))

\* C13: what parseDate returns for a text it accepts, by any of the three
\* forms, is accepted by parseDate and returned as it is.
C13Idempotent ==
    (dateOutput.done /\ dateOutput.ret # Null)
    => parseDate(dateOutput.ret) = dateOutput.ret

\* C14: for a text of the form YYYY[-/]M[-/]D parseDate returns a date
\* only when year, month and day name a day of the calendar (the month in
\* 1..12, the day within the month's length, leap years counted).
C14IsoIsCalendarDate ==
    (dateOutput.done /\ IsoLike(dateInput) /\ dateOutput.ret # Null)
    => RealDate(dateOutput.ret)

----------------------------------------------------------------------------
(* Properties of the weather service *)

\* the call of weatherService.ts has sent its queries
sent == wxCall.variant = "split" /\ wxDone.pc \in {"awaiting", "done"}

\* the range reaches the cutoff day or an earlier one
reachesArchive == wxCall.startDate <= cutoffStr(wxCall)

\* the range reaches a day after the cutoff day
reachesForecast == wxCall.endDate > cutoffStr(wxCall)

\* the dates of a result, in its order
datesOf(result) == [i \in 1..Len(result) |-> result[i].date]

\* C15: a range wholly after the cutoff day is asked of the forecast only, a
\* range wholly on or before it of the archive only, and a range on both
\* sides of it of both.
C15OneQueryPerSide ==
    sent => /\ (\E l \in Leg : wxLegs[l].state # "none")
            /\ (wxLegs.archive.state # "none") <=> reachesArchive
            /\ (wxLegs.forecast.state # "none") <=> reachesForecast

\* C16: for a range on both sides of the cutoff day the archive is asked for
\* startDate..cutoff and the forecast for cutoff+1..endDate, so that when
\* both answer with the days asked for, the result holds every day of the
\* range once, in order.
C16DisjointCover ==
    (sent /\ reachesArchive /\ reachesForecast) =>
        /\ wxLegs.archive.from = wxCall.startDate
        /\ wxLegs.archive.to = cutoffStr(wxCall)
        /\ wxLegs.forecast.state # "none"
        /\ wxLegs.forecast.from = cutoffStr(wxCall) + 1
        /\ wxLegs.forecast.to = wxCall.endDate
        /\ (wxDone.pc = "done" /\ wxLegs.archive.answer = "days" /\ wxLegs.forecast.answer = "days")
              => datesOf(wxDone.ret) = [i \in 1..(wxCall.endDate - wxCall.startDate + 1) |->
                                           wxCall.startDate + i - 1]

\* C17: when both queries are issued and one of them fails, the call returns
\* the days of the other.
C17OtherLegSurvives ==
    [][(wxCall.variant = "split" /\ wxDone.pc = "awaiting" /\ wxDone'.pc = "done"
          /\ issued(wxLegs) = Leg)
        => (\A l \in Leg :
              (wxLegs[l].state = "fulfilled" /\ wxLegs[l].answer = "days")
                 => (\A d \in wxLegs[l].from..wxLegs[l].to :
                        \E i \in 1..Len(wxDone'.ret) : wxDone'.ret[i].date = d))]_vars

\* every query that was issued has failed: its response is not ok, or it
\* was rejected
allFailed == \A l \in issued(wxLegs) : wxLegs[l].answer \in {"status", "error"}

\* C18: fetchWeatherHistory never raises to its caller, and returns the
\* empty list when every query it issued fails.
C18NeverThrows ==
    wxDone.pc = "done" => /\ ~wxDone.threw
                          /\ allFailed => wxDone.ret = <<>>

C18Witness ==
    /\ wxDone.pc = "done"
    /\ wxCall.variant = "split"
    /\ issued(wxLegs) = Leg
    /\ wxLegs.archive.answer = "error"
    /\ wxLegs.forecast.answer = "status"
    /\ wxDone.ret = <<>>
    /\ ~wxDone.threw

\* C19: in the call that issues both queries, the result is produced only
\* after every query issued has been answered or has failed.
C19ReturnsAfterBoth ==
    (sent /\ wxDone.pc = "done" /\ issued(wxLegs) = Leg)
        => (\A l \in Leg : wxLegs[l].state # "pending")

----------------------------------------------------------------------------
(* Properties of the Sheet Import Adapter *)

\* the last operation is a call of fetchGoogleSheet
sheetCall == last.op = "sheet"

\* that call got a response (fetch was called and was not rejected)
answered == sheetCall /\ last.response.kind = "response"

\* C21: a failed fetchGoogleSheet gives one of four reasons: invalid URL
\* when the url has no document identifier, access denied for an HTML
\* content type, the status error for a non-success status, no valid rows
\* for a text without accepted rows; it returns records only when none of
\* these is the case.
C21FourReasons ==
    sheetCall =>
        /\ last.threw => last.reason \in {"invalid url", "access denied", "status", "no valid rows"}
        /\ ~last.url.hasId => last.reason = "invalid url"
        /\ (last.url.hasId /\ answered /\ last.response.html) => last.reason = "access denied"
        /\ (last.url.hasId /\ answered /\ ~last.response.html /\ ~last.response.ok)
              => last.reason = "status"
        /\ (last.url.hasId /\ answered /\ ~last.response.html /\ last.response.ok
               /\ Len(accepted(last.input)) = 0)
              => last.reason = "no valid rows"
        /\ ~last.threw => (last.url.hasId /\ Len(last.ret) > 0)

\* C21, amended: the reasons are five.  Invalid URL is given for a url with
\* neither a document identifier nor output=csv, and a rejected fetch gives
\* the reason of the rejection.
C21FiveReasons ==
    sheetCall =>
        /\ last.threw <=> last.reason # "none"
        /\ last.reason = "invalid url" <=> (~last.url.hasId /\ ~last.url.outputCsv)
        /\ last.reason = "fetch failed" <=> (last.fetched /\ last.response.kind = "rejected")
        /\ last.reason = "access denied" <=> (answered /\ last.response.html)
        /\ last.reason = "status" <=> (answered /\ ~last.response.html /\ ~last.response.ok)
        /\ last.reason = "no valid rows"
              <=> (answered /\ ~last.response.html /\ last.response.ok
                     /\ Len(accepted(last.input)) = 0)
        /\ ~last.threw => (Len(last.ret) > 0 /\ Len(last.ret) = Len(accepted(last.input)))

C21Witness ==
    /\ sheetCall
    /\ answered
    /\ last.response.ok
    /\ ~last.response.html
    /\ last.threw
    /\ last.reason = "no valid rows"

\* C30: a response with a non-success status and an HTML content type is
\* reported as access denied; the status error is reported only for a
\* non-success status whose content type is not HTML.
C30ContentTypeFirst ==
    answered =>
        /\ (last.response.html /\ ~last.response.ok) => last.reason = "access denied"
        /\ last.reason = "status" => (~last.response.ok /\ ~last.response.html)

C30Witness ==
    /\ answered
    /\ last.response.html
    /\ ~last.response.ok
    /\ last.threw
    /\ last.reason = "access denied"

----------------------------------------------------------------------------
(* Frame properties of the store *)

\* the records the slot holds
stored == slot.items

\* the step saves an entry
saves == last'.op = "save" /\ ~last'.threw

\* the step deletes by an id that a stored record has
deletesHeld == last'.op = "delete" /\ last'.id \in ids(stored)

\* the step is an import that returned nothing or threw
importFails == last'.op \in {"sheet", "paste"} /\ (last'.threw \/ Len(last'.ret) = 0)

\* C23: saving an entry leaves every stored record of another date as it
\* was, and makes the store one record longer when the date was not stored
\* (the new record keeping its own id) and no longer otherwise.
C23UpsertChangesOneDate ==
    [][saves =>
          /\ \A i \in 1..Len(stored) :
                (stored[i].date # last'.obs.date)
                   => (\E j \in 1..Len(slot'.items) : slot'.items[j] = stored[i])
          /\ (\E i \in 1..Len(stored) : stored[i].date = last'.obs.date)
                => (Len(slot'.items) = Len(stored))
          /\ (\A i \in 1..Len(stored) : stored[i].date # last'.obs.date)
                => (/\ Len(slot'.items) = Len(stored) + 1
                    /\ \E j \in 1..Len(slot'.items) : slot'.items[j] = last'.obs)]_vars

C23Witness ==
    /\ last.op = "save"
    /\ ~last.threw
    /\ Len(stored) >= 2
    /\ \E i \in 1..Len(stored) :
          stored[i].date = last.obs.date /\ stored[i].id # last.obs.id

\* C24: deleting by the id of a stored record removes that record and no
\* other: no stored record has the id afterwards, every record of another
\* id is still stored as it was, and what is left is persisted and
\* returned.
C24DeleteRemovesOne ==
    [][deletesHeld =>
          /\ last'.id \notin ids(slot'.items)
          /\ \A i \in 1..Len(stored) :
                (stored[i].id # last'.id)
                   => (\E j \in 1..Len(slot'.items) : slot'.items[j] = stored[i])
          /\ Len(slot'.items) = Len(stored) - 1
          /\ slot'.kind = "array"
          /\ last'.ret = slot'.items]_vars

C24Witness ==
    /\ last.op = "delete"
    /\ ~last.threw
    /\ last.id < nextToken
    /\ last.id \notin ids(stored)
    /\ Len(stored) >= 1
    /\ last.ret = stored

\* C26: an import that fails, or accepts no row, leaves the slot as it was.
C26FailedImportKeepsSlot ==
    [][importFails => (slot' = slot)]_vars

C26Witness ==
    /\ last.op = "sheet"
    /\ last.threw
    /\ last.reason = "no valid rows"
    /\ Len(stored) >= 1

----------------------------------------------------------------------------
(* The round trip *)

\* the fields of the data rows of a CSV text: its lines but the first, each
\* split at its commas
dataFields(text) ==
    [i \in 1..(Len(splitLines(text)) - 1) |-> split(splitLines(text)[i + 1], ",")]

\* the fields a record is exported as
fieldsFor(t) == <<t[1], String(t[2]), String(t[3]), String(t[4])>>

\* C22: the export of an imported well-formed text has one data row per row
\* of the text, with the date and values the import gave that row, and
\* importing the export gives records of the same dates and values.
C22RoundTrip ==
    last.op = "repaste" =>
        /\ Len(dataFields(clipboard)) = Len(csvInput.rows)
        /\ sameBag(dataFields(clipboard),
                   [i \in 1..Len(accepted(csvInput.text)) |->
                        fieldsFor(tuplesOf(accepted(csvInput.text))[i])])
        /\ sameBag(tuplesOf(last.ret), tuplesOf(accepted(csvInput.text)))

----------------------------------------------------------------------------
(* Properties of the App *)

\* no remote call is in flight
quiescent ==
    /\ sheetCalls.init # "pending"
    /\ sheetCalls.sync = 0
    /\ weatherHistory.state # "pending"
    /\ aiCall.state = "idle"

\* C25: once a save, a delete or an import has been made and no remote call
\* is in flight, the weather the App holds was fetched for the span from the
\* earliest to the latest date of its data.
C25WeatherFollowsData ==
    (quiescent /\ last.op # "none" /\ Len(data) > 0 /\ spanOf(data) # {})
        => /\ weatherHistory.state = "set"
           /\ \A span \in spanOf(data) :
                 weatherHistory.from = span.from /\ weatherHistory.to = span.to

\* C27: between handlers, the App's data holds the records that list() of
\* the persisted store gives, whatever the order in which user actions and
\* the answers to sheet imports in flight come.
C27DataIsTheStore ==
    sameBag(data, getObservations(slot))

C27Witness ==
    /\ last.op = "sheet"
    /\ ~last.threw
    /\ sheetCalls.init = "done"
    /\ sheetCalls.sync = 0
    /\ nextToken >= 3
    /\ Len(data) = 1
    /\ data[1].id = nextToken - 1
    /\ sameBag(data, getObservations(slot))

\* C28: while a call of handleUrlImport is in flight, importStatus is
\* 'loading'.
C28LoadingWhilePending ==
    (sheetCalls.sync > 0) => (importStatus = "loading")

\* C29: the App's data is ordered newest first in every state, also after
\* an analysis or a question.
C29DataNewestFirst ==
    Descending(data)

====
